---- MODULE Spec2Model ----
(***************************************************************************)
(* The attempt/response lifecycle and grading engine of AlzProject/backend *)
(* (the attempt service, src/src/controllers/attempt.controller.ts lines   *)
(* 397-872), over the Attempt and Response tables of the first migration.  *)
(*                                                                         *)
(* Nullable values are sequences: NULL is <<>> and a present value v is    *)
(* <<v>>.  Strings are sequences of one-character strings.  Decimal scores *)
(* and weights are integers counting hundredths (2.00 is 200, 0.6 is 60).  *)
(*                                                                         *)
(* Every `await` of the service is a point where another request handler   *)
(* may run.  An operation whose awaits are one existence check followed by *)
(* one unconditional write is one action (no operation of the engine       *)
(* deletes a row, so nothing can happen between the two that changes the   *)
(* outcome).  submitResponse (the upsert's read and its write) and         *)
(* autoGradeAttempt (read, one write per response, re-read, status write)  *)
(* are several actions.                                                    *)
(***************************************************************************)
EXTENDS Integers, Sequences, FiniteSets, TLC

VARIABLES
    attempts,        \* the Attempt table: a sequence, the row's id is its index
    responses,       \* the Response table: a set of rows
    nextResponseId,  \* the Response id sequence (SERIAL)
    subs,            \* submitResponse calls in flight, per handler
    graders,         \* autoGradeAttempt calls in flight, per handler
    reply            \* the last request answered: what was asked, what was returned

vars == <<attempts, responses, nextResponseId, subs, graders, reply>>

----------------------------------------------------------------------------
(* Bounds of the model *)

MaxAttempts == 1
MaxStarts == 2
MaxResponses == 1
NumSubmitters == 2
MaxTime == 2

Submitters == 1..NumSubmitters
Graders == {1}
Times == 1..MaxTime
Users == {1}
StartUsers == {1, 2}

NULL == <<>>
Some(v) == <<v>>
IsNull(x) == x = <<>>
Val(x) == x[1]

----------------------------------------------------------------------------
(* The catalog the engine reads: tests, questions and their options *)

\* Test rows: only allowPartialMarking is read by the engine.
tests ==
    {[id |-> 1, allowNegativeMarking |-> TRUE, allowPartialMarking |-> FALSE],
     [id |-> 2, allowNegativeMarking |-> TRUE, allowPartialMarking |-> TRUE]}

TestIds == {t.id : t \in tests}
findTest(testId) == {t \in tests : t.id = testId}

Opt(id, isCorrect, weight) == [id |-> id, isCorrect |-> isCorrect, weight |-> weight]

\* Question rows with their options (in array order).
questions ==
    {[id |-> 1, type |-> "scmcq", ans |-> NULL, maxScore |-> 200,
      negativeScore |-> 50, partialMarking |-> FALSE,
      options |-> <<Opt(1, TRUE, 100), Opt(2, FALSE, 0)>>],
     [id |-> 2, type |-> "mcmcq", ans |-> NULL, maxScore |-> 1000,
      negativeScore |-> 100, partialMarking |-> TRUE,
      options |-> <<Opt(3, TRUE, 60), Opt(4, TRUE, 40), Opt(5, FALSE, 0)>>],
     [id |-> 3, type |-> "numerical", ans |-> Some(<<"3", ".", "0">>), maxScore |-> 100,
      negativeScore |-> 25, partialMarking |-> FALSE, options |-> <<>>],
     [id |-> 4, type |-> "numerical", ans |-> Some(<<"p", "i">>), maxScore |-> 100,
      negativeScore |-> 25, partialMarking |-> FALSE, options |-> <<>>],
     [id |-> 5, type |-> "numerical", ans |-> NULL, maxScore |-> 100,
      negativeScore |-> 25, partialMarking |-> FALSE, options |-> <<>>],
     [id |-> 6, type |-> "text", ans |-> NULL, maxScore |-> 500,
      negativeScore |-> 0, partialMarking |-> FALSE, options |-> <<>>],
     [id |-> 7, type |-> "file_upload", ans |-> NULL, maxScore |-> 500,
      negativeScore |-> 0, partialMarking |-> FALSE, options |-> <<>>]}

QuestionIds == {q.id : q \in questions}
findQuestion(questionId) == {q \in questions : q.id = questionId}
questionOf(questionId) == CHOOSE q \in questions : q.id = questionId

----------------------------------------------------------------------------
(* Rows *)

AttemptRow(testId, userId) ==
    [testId |-> testId, userId |-> userId, status |-> "in_progress",
     submittedAt |-> NULL, totalScore |-> NULL]

AttemptIds == 1..Len(attempts)

responsesOf(attemptId) == {r \in responses : r.attemptId = attemptId}

findResponse(attemptId, questionId) ==
    {r \in responses : r.attemptId = attemptId /\ r.questionId = questionId}

\* The Attempt table has room for another row, within the bound.
CanStart == Len(attempts) < MaxAttempts

IdleSub == [pc |-> "idle"]
IdleGrader == [pc |-> "idle"]

Init ==
    /\ attempts = <<>>
    /\ responses = {}
    /\ nextResponseId = 1
    /\ subs = [s \in Submitters |-> IdleSub]
    /\ graders = [g \in Graders |-> IdleGrader]
    /\ reply = [op |-> "none"]

----------------------------------------------------------------------------
(* What the service returns *)

\* formatAttempt: totalScore ? Number(totalScore) : null  (0 is falsy)
formatAttempt(id, row) ==
    [id |-> id, testId |-> row.testId, userId |-> row.userId,
     submittedAt |-> row.submittedAt,
     totalScore |-> IF IsNull(row.totalScore) \/ Val(row.totalScore) = 0
                    THEN NULL ELSE row.totalScore,
     status |-> row.status]

\* formatResponse: score ? Number(score) : null  (0 is falsy)
formatResponse(row) ==
    [row EXCEPT !.score = IF IsNull(row.score) \/ Val(row.score) = 0 THEN NULL ELSE row.score]

\* A request answered with a result, or with the error the service threw.
Returned(op, args, body) == [op |-> op, args |-> args, error |-> NULL, body |-> body]
Threw(op, args, what) == [op |-> op, args |-> args, error |-> Some(what)]

----------------------------------------------------------------------------
(* startAttempt, submitAttempt *)

\* startAttempt refusing a user who already holds an attempt on the test.
startAttemptOncePerTest(testId, userId) ==
    /\ LET args == [testId |-> testId, userId |-> userId] IN
       IF findTest(testId) = {}
       THEN /\ reply' = Threw("startAttempt", args, "Test not found")
            /\ UNCHANGED attempts
       ELSE IF \E a \in AttemptIds :
                    attempts[a].testId = testId /\ attempts[a].userId = userId
       THEN /\ reply' = Threw("startAttempt", args, "Attempt already started")
            /\ UNCHANGED attempts
       ELSE /\ attempts' = Append(attempts, AttemptRow(testId, userId))
            /\ reply' = Returned("startAttempt", args,
                            formatAttempt(Len(attempts) + 1, AttemptRow(testId, userId)))
    /\ UNCHANGED <<responses, nextResponseId, subs, graders>>

startAttempt(testId, userId) ==
    /\ LET args == [testId |-> testId, userId |-> userId] IN
       IF findTest(testId) = {}
       THEN /\ reply' = Threw("startAttempt", args, "Test not found")
            /\ UNCHANGED attempts
       ELSE /\ attempts' = Append(attempts, AttemptRow(testId, userId))
            /\ reply' = Returned("startAttempt", args,
                            formatAttempt(Len(attempts) + 1, AttemptRow(testId, userId)))
    /\ UNCHANGED <<responses, nextResponseId, subs, graders>>

\* submittedAtOf stamping the current time whatever the caller supplied.
submittedAtOfNow(submitTime, now) == Some(now)

\* submitTime || new Date(): a Date object is always truthy.
submittedAtOf(submitTime, now) == IF IsNull(submitTime) THEN Some(now) ELSE submitTime

submitAttempt(attemptId, submitTime, now) ==
    /\ LET args == [attemptId |-> attemptId, submitTime |-> submitTime] IN
       IF attemptId \notin AttemptIds
       THEN /\ reply' = Threw("submitAttempt", args, "Attempt not found")
            /\ UNCHANGED attempts
       ELSE /\ attempts' = [attempts EXCEPT ![attemptId] =
                    [@ EXCEPT !.status = "submitted",
                              !.submittedAt = submittedAtOf(submitTime, now)]]
            /\ reply' = Returned("submitAttempt", args,
                            formatAttempt(attemptId, attempts'[attemptId]))
    /\ UNCHANGED <<responses, nextResponseId, subs, graders>>

----------------------------------------------------------------------------
(* submitResponse: existence checks, then prisma.response.upsert *)

\* data.selectedOptionIds || []  (an array, even an empty one, is truthy)
selectedOptionIdsOrEmpty(x) == IF IsNull(x) THEN <<>> ELSE Val(x)

\* data.answerText || null  (the empty string is falsy)
answerTextOrNull(x) == IF IsNull(x) \/ Val(x) = <<>> THEN NULL ELSE x

\* data.score ? parseFloat(data.score.toString()) : null  (0 is falsy; the
\* round trip through toString and parseFloat returns the same number)
scoreOrNull(x) == IF IsNull(x) \/ Val(x) = 0 THEN NULL ELSE x

\* The upsert's create branch.
createData(id, attemptId, questionId, data) ==
    [id |-> id, attemptId |-> attemptId, questionId |-> questionId,
     selectedOptionIds |-> selectedOptionIdsOrEmpty(data.selectedOptionIds),
     answerText |-> answerTextOrNull(data.answerText),
     score |-> scoreOrNull(data.score),
     evaluated |-> FALSE]

\* updateData resetting the evaluated flag as the create branch sets it.
updateDataResetsEvaluated(row, data) ==
    [row EXCEPT !.selectedOptionIds = selectedOptionIdsOrEmpty(data.selectedOptionIds),
                !.answerText = answerTextOrNull(data.answerText),
                !.score = scoreOrNull(data.score),
                !.evaluated = FALSE]

\* updateData adding the new selection to the stored one.
updateDataAppends(row, data) ==
    [row EXCEPT !.selectedOptionIds = @ \o selectedOptionIdsOrEmpty(data.selectedOptionIds),
                !.answerText = answerTextOrNull(data.answerText),
                !.score = scoreOrNull(data.score)]

\* The upsert's update branch.
updateData(row, data) ==
    [row EXCEPT !.selectedOptionIds = selectedOptionIdsOrEmpty(data.selectedOptionIds),
                !.answerText = answerTextOrNull(data.answerText),
                !.score = scoreOrNull(data.score)]

\* The unique index Response_attemptId_questionId_key refuses this row.
uniqueViolation(rs, row) ==
    \E r \in rs : r.attemptId = row.attemptId /\ r.questionId = row.questionId

\* InsertResponse on a table without the unique index.
InsertResponseNoUniqueIndex(rs, row) == rs \cup {row}

\* INSERT into Response: a row the unique index refuses makes the statement
\* fail and leaves the table as it was.
InsertResponse(rs, row) == IF uniqueViolation(rs, row) THEN rs ELSE rs \cup {row}

\* UPDATE Response ... WHERE attemptId = .. AND questionId = ..
UpdateResponseByKey(rs, attemptId, questionId, data) ==
    {IF r.attemptId = attemptId /\ r.questionId = questionId
     THEN updateData(r, data) ELSE r : r \in rs}

\* The upsert's write, `found` being what its read saw: UPDATE the row, or
\* INSERT one (the id sequence advances whether or not the index accepts it).
upsertResponse(attemptId, questionId, data, found) ==
    LET args == [attemptId |-> attemptId, questionId |-> questionId, data |-> data]
        row == createData(nextResponseId, attemptId, questionId, data)
    IN  IF found
        THEN /\ responses' = UpdateResponseByKey(responses, attemptId, questionId, data)
             /\ UNCHANGED nextResponseId
             /\ reply' = Returned("submitResponse", args,
                   formatResponse(CHOOSE r \in responses' :
                        r.attemptId = attemptId /\ r.questionId = questionId))
        ELSE /\ responses' = InsertResponse(responses, row)
             /\ nextResponseId' = nextResponseId + 1
             /\ reply' = IF uniqueViolation(responses, row)
                         THEN Threw("submitResponse", args, "Unique constraint failed")
                         ELSE Returned("submitResponse", args, formatResponse(row))

\* submitResponseMissing looking for the question before the attempt.
submitResponseMissingQuestionFirst(attemptId, questionId) ==
    IF findQuestion(questionId) = {} THEN Some("Question not found")
    ELSE IF attemptId \notin AttemptIds THEN Some("Attempt not found")
    ELSE NULL

\* What the existence checks throw, if anything.
submitResponseMissing(attemptId, questionId) ==
    IF attemptId \notin AttemptIds THEN Some("Attempt not found")
    ELSE IF findQuestion(questionId) = {} THEN Some("Question not found")
    ELSE NULL

\* The existence checks and the upsert's read of the row.
submitResponseBegin(s, attemptId, questionId, data) ==
    /\ subs[s].pc = "idle"
    /\ IF ~IsNull(submitResponseMissing(attemptId, questionId))
       THEN /\ reply' = Threw("submitResponse",
                    [attemptId |-> attemptId, questionId |-> questionId, data |-> data],
                    Val(submitResponseMissing(attemptId, questionId)))
            /\ UNCHANGED subs
       ELSE /\ subs' = [subs EXCEPT ![s] =
                    [pc |-> "upsert", attemptId |-> attemptId, questionId |-> questionId,
                     data |-> data, found |-> findResponse(attemptId, questionId) # {}]]
            /\ UNCHANGED reply
    /\ UNCHANGED <<attempts, responses, nextResponseId, graders>>

\* The upsert's write.
submitResponseUpsert(s) ==
    /\ subs[s].pc = "upsert"
    /\ upsertResponse(subs[s].attemptId, subs[s].questionId, subs[s].data, subs[s].found)
    /\ subs' = [subs EXCEPT ![s] = IdleSub]
    /\ UNCHANGED <<attempts, graders>>

\* submitResponse with no other handler running between its awaits.
submitResponse(attemptId, questionId, data) ==
    /\ IF ~IsNull(submitResponseMissing(attemptId, questionId))
       THEN /\ reply' = Threw("submitResponse",
                    [attemptId |-> attemptId, questionId |-> questionId, data |-> data],
                    Val(submitResponseMissing(attemptId, questionId)))
            /\ UNCHANGED <<responses, nextResponseId>>
       ELSE upsertResponse(attemptId, questionId, data,
                           findResponse(attemptId, questionId) # {})
    /\ UNCHANGED <<attempts, subs, graders>>

\* The messages of the errors that reach the controller, word by word.
messageWords(message) ==
    CASE message = "Attempt not found" -> <<"Attempt", "not", "found">>
      [] message = "Question not found" -> <<"Question", "not", "found">>
      [] message = "Response not found" -> <<"Response", "not", "found">>
      [] message = "Test not found" -> <<"Test", "not", "found">>
      [] message = "Unique constraint failed" -> <<"Unique", "constraint", "failed">>

\* err.message.includes(part)
messageIncludes(message, part) ==
    LET text == messageWords(message)
    IN  \E i \in 1..Len(text) :
            i + Len(part) - 1 <= Len(text) /\ SubSeq(text, i, i + Len(part) - 1) = part

\* The controller's catch: the entity NotFoundError names, or NULL when the
\* error is thrown on as it is.
submitResponseNotFound(message) ==
    IF messageIncludes(message, <<"not", "found">>)
    THEN Some(IF messageIncludes(message, <<"Attempt">>) THEN "Attempt" ELSE "Question")
    ELSE NULL

----------------------------------------------------------------------------
(* gradeResponse *)

UpdateResponseById(rs, responseId, score, evaluated) ==
    {IF r.id = responseId
     THEN [r EXCEPT !.score = score, !.evaluated = evaluated] ELSE r : r \in rs}

\* gradeResponse closing the attempt once its last response is evaluated.
gradeResponseClosesAttempt(responseId, score) ==
    /\ LET args == [responseId |-> responseId, score |-> score] IN
       IF \A r \in responses : r.id # responseId
       THEN /\ reply' = Threw("gradeResponse", args, "Response not found")
            /\ UNCHANGED <<responses, attempts>>
       ELSE /\ responses' = UpdateResponseById(responses, responseId, Some(score), TRUE)
            /\ reply' = Returned("gradeResponse", args,
                   formatResponse(CHOOSE r \in responses' : r.id = responseId))
            /\ attempts' = [a \in DOMAIN attempts |->
                    IF \A r \in responses' : r.attemptId = a => r.evaluated
                    THEN [attempts[a] EXCEPT !.status = "graded"] ELSE attempts[a]]
    /\ UNCHANGED <<nextResponseId, subs, graders>>

gradeResponse(responseId, score) ==
    /\ LET args == [responseId |-> responseId, score |-> score] IN
       IF \A r \in responses : r.id # responseId
       THEN /\ reply' = Threw("gradeResponse", args, "Response not found")
            /\ UNCHANGED responses
       ELSE /\ responses' = UpdateResponseById(responses, responseId, Some(score), TRUE)
            /\ reply' = Returned("gradeResponse", args,
                   formatResponse(CHOOSE r \in responses' : r.id = responseId))
    /\ UNCHANGED <<attempts, nextResponseId, subs, graders>>

----------------------------------------------------------------------------
(* The two routes to gradeResponse, with the middleware the router puts   *)
(* before each controller.  Callers are authenticated: `authenticate`     *)
(* has set req.user, whose type is the caller's role.                     *)

UserTypes == {"participant", "tester", "admin"}

PatchResponse == "PATCH /responses/:responseId"
PostGradingManual == "POST /grading/manual"

\* The middleware of each route, in the router's order.
routeMiddleware(route) ==
    CASE route = PatchResponse -> <<"authenticate">>
      [] route = PostGradingManual -> <<"authenticate", "requireTesterOrAdmin">>

\* requireTesterOrAdmin calls next() for these callers and throws for others.
requireTesterOrAdmin(userType) == userType = "tester" \/ userType = "admin"

\* The request gets through the route's middleware to its controller.
reachesController(route, userType) ==
    \A i \in 1..Len(routeMiddleware(route)) :
        routeMiddleware(route)[i] = "requireTesterOrAdmin" => requireTesterOrAdmin(userType)

\* AuthorizationError and NotFoundError as the status the client gets.
Forbidden == 403
NotFound == 404

\* A controller's call of attemptService.gradeResponse and its answer.
callGradeResponse(route, args, responseId, score) ==
    IF \A r \in responses : r.id # responseId
    THEN /\ reply' = Threw(route, args, NotFound)
         /\ UNCHANGED responses
    ELSE /\ responses' = UpdateResponseById(responses, responseId, Some(score), TRUE)
         /\ reply' = Returned(route, args,
                formatResponse(CHOOSE r \in responses' : r.id = responseId))

\* PATCH /responses/:responseId: the controller parses the path id, then
\* grades the response the body names.
evaluateResponse(userType, pathId, body) ==
    /\ LET args == [userType |-> userType, pathId |-> pathId, body |-> body] IN
       IF ~reachesController(PatchResponse, userType)
       THEN /\ reply' = Threw(PatchResponse, args, Forbidden)
            /\ UNCHANGED responses
       ELSE callGradeResponse(PatchResponse, args, body.responseId, body.score)
    /\ UNCHANGED <<attempts, nextResponseId, subs, graders>>

\* POST /grading/manual.
manualGradeResponse(userType, body) ==
    /\ LET args == [userType |-> userType, body |-> body] IN
       IF ~reachesController(PostGradingManual, userType)
       THEN /\ reply' = Threw(PostGradingManual, args, Forbidden)
            /\ UNCHANGED responses
       ELSE callGradeResponse(PostGradingManual, args, body.responseId, body.score)
    /\ UNCHANGED <<attempts, nextResponseId, subs, graders>>

----------------------------------------------------------------------------
(* parseFloat on the strings of the model: leading blanks, an optional    *)
(* sign, digits with an optional fraction; NaN (NULL) when no digit is    *)
(* found, else the value in hundredths (the model's strings carry at most *)
(* two fraction digits and no exponent).  Trailing text is ignored.       *)

digitValue ==
    [c \in {"0", "1", "2", "3", "4", "5", "6", "7", "8", "9"} |->
        CASE c = "0" -> 0 [] c = "1" -> 1 [] c = "2" -> 2 [] c = "3" -> 3
          [] c = "4" -> 4 [] c = "5" -> 5 [] c = "6" -> 6 [] c = "7" -> 7
          [] c = "8" -> 8 [] c = "9" -> 9]

IsDigit(c) == c \in DOMAIN digitValue

RECURSIVE skipBlanks(_, _)
skipBlanks(str, i) ==
    IF i <= Len(str) /\ str[i] = " " THEN skipBlanks(str, i + 1) ELSE i

RECURSIVE digitsEnd(_, _)
digitsEnd(str, i) ==
    IF i <= Len(str) /\ IsDigit(str[i]) THEN digitsEnd(str, i + 1) ELSE i

\* The value of the digits str[i..j-1].
RECURSIVE digitsValue(_, _, _)
digitsValue(str, i, j) ==
    IF j <= i THEN 0 ELSE digitsValue(str, i, j - 1) * 10 + digitValue[str[j - 1]]

parseFloat(str) ==
    LET start == skipBlanks(str, 1)
        signed == start <= Len(str) /\ str[start] \in {"+", "-"}
        sign == IF signed /\ str[start] = "-" THEN -1 ELSE 1
        intFrom == IF signed THEN start + 1 ELSE start
        intEnd == digitsEnd(str, intFrom)
        hasDot == intEnd <= Len(str) /\ str[intEnd] = "."
        fracFrom == intEnd + 1
        fracEnd == IF hasDot THEN digitsEnd(str, fracFrom) ELSE fracFrom
        fracLen == fracEnd - fracFrom
        hundredths ==
            IF fracLen = 0 THEN 0
            ELSE IF fracLen = 1 THEN digitValue[str[fracFrom]] * 10
            ELSE digitValue[str[fracFrom]] * 10 + digitValue[str[fracFrom + 1]]
    IN  IF intEnd = intFrom /\ fracLen = 0
        THEN NULL                                   \* NaN
        ELSE Some(sign * (digitsValue(str, intFrom, intEnd) * 100 + hundredths))

\* userNum === correctNum: NaN equals nothing, itself included.
numbersEqual(a, b) == ~IsNull(a) /\ ~IsNull(b) /\ Val(a) = Val(b)

----------------------------------------------------------------------------
(* The grading of one response, as in autoGradeAttempt's loop body *)

\* question.options.find((opt) => opt.id === optionId)?.isCorrect
optionIsCorrect(question, optionId) ==
    \E i \in 1..Len(question.options) :
        question.options[i].id = optionId /\ question.options[i].isCorrect

\* question.options.find((opt) => opt.isCorrect)?.id
correctOptionId(question) ==
    LET idx == {i \in 1..Len(question.options) : question.options[i].isCorrect}
    IN  IF idx = {} THEN NULL
        ELSE Some(question.options[CHOOSE i \in idx : \A j \in idx : i <= j].id)

\* The weight of the first option with this id.
optionWeight(question, optionId) ==
    LET idx == {i \in 1..Len(question.options) : question.options[i].id = optionId}
    IN  question.options[CHOOSE i \in idx : \A j \in idx : i <= j].weight

\* Number(option.weight) * Number(question.maxScore), both in hundredths.
weightTimesMaxScore(weight, maxScore) == (weight * maxScore) \div 100

\* gradeSingleChoice looking only at the first selected id.
gradeSingleChoiceFirstOnly(question, selectedIds) ==
    IF Len(selectedIds) >= 1 /\ Some(selectedIds[1]) = correctOptionId(question)
    THEN question.maxScore
    ELSE IF Len(selectedIds) > 0 THEN question.negativeScore ELSE 0

gradeSingleChoice(question, selectedIds) ==
    IF Len(selectedIds) = 1 /\ Some(selectedIds[1]) = correctOptionId(question)
    THEN question.maxScore
    ELSE IF Len(selectedIds) > 0 THEN question.negativeScore ELSE 0

RECURSIVE partialScore(_, _, _)
partialScore(question, selectedIds, i) ==
    IF i > Len(selectedIds) THEN 0
    ELSE (IF optionIsCorrect(question, selectedIds[i])
          THEN weightTimesMaxScore(optionWeight(question, selectedIds[i]), question.maxScore)
          ELSE 0)
         + partialScore(question, selectedIds, i + 1)

gradeMultiChoice(test, question, selectedIds) ==
    LET correctCount == Cardinality({i \in 1..Len(selectedIds) :
                                        optionIsCorrect(question, selectedIds[i])})
        incorrectCount == Len(selectedIds) - correctCount
        allCorrectCount == Cardinality({i \in 1..Len(question.options) :
                                        question.options[i].isCorrect})
    IN  IF test.allowPartialMarking /\ question.partialMarking
        THEN partialScore(question, selectedIds, 1)
        ELSE IF /\ correctCount = allCorrectCount
                /\ incorrectCount = 0
                /\ Len(selectedIds) = allCorrectCount
             THEN question.maxScore
             ELSE IF Len(selectedIds) > 0 THEN question.negativeScore ELSE 0

\* userAnswer && correctAnswer: null and the empty string are falsy.
truthyText(x) == ~IsNull(x) /\ Val(x) # <<>>

\* gradeNumerical comparing the two texts instead of the two numbers.
gradeNumericalByText(question, answerText) ==
    IF Val(answerText) = Val(question.ans)
    THEN question.maxScore
    ELSE question.negativeScore

gradeNumerical(question, answerText) ==
    IF numbersEqual(parseFloat(Val(answerText)), parseFloat(Val(question.ans)))
    THEN question.maxScore
    ELSE question.negativeScore

\* gradeOne scoring 0 every response it has no rule for.
gradeOneEveryType(test, question, response) ==
    IF question.type = "scmcq"
    THEN [graded |-> TRUE, score |-> gradeSingleChoice(question, response.selectedOptionIds)]
    ELSE IF question.type = "mcmcq"
    THEN [graded |-> TRUE,
          score |-> gradeMultiChoice(test, question, response.selectedOptionIds)]
    ELSE IF question.type = "numerical"
            /\ truthyText(response.answerText) /\ truthyText(question.ans)
    THEN [graded |-> TRUE, score |-> gradeNumerical(question, response.answerText)]
    ELSE [graded |-> TRUE, score |-> 0]

\* Whether the loop body writes a score for this response, and which.
gradeOne(test, question, response) ==
    IF question.type = "scmcq"
    THEN [graded |-> TRUE, score |-> gradeSingleChoice(question, response.selectedOptionIds)]
    ELSE IF question.type = "mcmcq"
    THEN [graded |-> TRUE,
          score |-> gradeMultiChoice(test, question, response.selectedOptionIds)]
    ELSE IF question.type = "numerical"
            /\ truthyText(response.answerText) /\ truthyText(question.ans)
    THEN [graded |-> TRUE, score |-> gradeNumerical(question, response.answerText)]
    ELSE [graded |-> FALSE, score |-> 0]

----------------------------------------------------------------------------
(* autoGradeAttempt *)

\* The rows of a set in id order.
RECURSIVE rowsById(_)
rowsById(rs) ==
    IF rs = {} THEN <<>>
    ELSE LET first == CHOOSE r \in rs : \A o \in rs : r.id <= o.id
         IN  <<first>> \o rowsById(rs \ {first})

testOf(attemptId) == CHOOSE t \in tests : t.id = attempts[attemptId].testId

\* gradeIteration leaving alone a response that is already evaluated.
gradeIterationSkipsEvaluated(pass, test, response) ==
    LET result == gradeOne(test, questionOf(response.questionId), response)
    IN  IF result.graded /\ ~response.evaluated
        THEN [responses |-> UpdateResponseById(pass.responses, response.id,
                                               Some(result.score), TRUE),
              gradedCount |-> pass.gradedCount + 1,
              totalScore |-> pass.totalScore + result.score]
        ELSE pass

\* gradeIteration adding to totalScore the stored score of a response it
\* does not grade.
gradeIterationSumsStored(pass, test, response) ==
    LET result == gradeOne(test, questionOf(response.questionId), response)
    IN  IF result.graded
        THEN [responses |-> UpdateResponseById(pass.responses, response.id,
                                               Some(result.score), TRUE),
              gradedCount |-> pass.gradedCount + 1,
              totalScore |-> pass.totalScore + result.score]
        ELSE [pass EXCEPT !.totalScore =
                    @ + (IF IsNull(response.score) THEN 0 ELSE Val(response.score))]

\* One iteration of the loop: the table, gradedCount and totalScore after it.
gradeIteration(pass, test, response) ==
    LET result == gradeOne(test, questionOf(response.questionId), response)
    IN  IF result.graded
        THEN [responses |-> UpdateResponseById(pass.responses, response.id,
                                               Some(result.score), TRUE),
              gradedCount |-> pass.gradedCount + 1,
              totalScore |-> pass.totalScore + result.score]
        ELSE pass

\* The loop from its i-th iteration on, nothing else writing meanwhile.
RECURSIVE gradeLoop(_, _, _, _)
gradeLoop(pass, test, rows, i) ==
    IF i > Len(rows) THEN pass
    ELSE gradeLoop(gradeIteration(pass, test, rows[i]), test, rows, i + 1)

\* unevaluatedCount taking for unevaluated every response the pass has no
\* rule for, graded by hand or not.
unevaluatedCountManualPending(rs, attemptId) ==
    Cardinality({r \in rs : /\ r.attemptId = attemptId
                            /\ \/ ~r.evaluated
                               \/ questionOf(r.questionId).type
                                        \notin {"scmcq", "mcmcq", "numerical"}})

unevaluatedCount(rs, attemptId) ==
    Cardinality({r \in rs : r.attemptId = attemptId /\ ~r.evaluated})

\* statusAfterGrading closing the attempt whatever is left unevaluated.
statusAlwaysGraded(unevaluated) == "graded"

statusAfterGrading(unevaluated) == IF unevaluated = 0 THEN "graded" ELSE "submitted"

\* The update of the attempt's totalScore and status, and what is returned.
updateGradedAttempt(attemptId, totalScore, gradedCount, unevaluated) ==
    /\ attempts' = [attempts EXCEPT ![attemptId] =
            [@ EXCEPT !.totalScore = Some(totalScore),
                      !.status = statusAfterGrading(unevaluated)]]
    /\ reply' = Returned("autoGradeAttempt", [attemptId |-> attemptId],
            [attempt |-> formatAttempt(attemptId, attempts'[attemptId]),
             graded_responses_count |-> gradedCount])

\* findUnique of the attempt with its test and its responses.
autoGradeRead(g, attemptId) ==
    /\ graders[g].pc = "idle"
    /\ IF attemptId \notin AttemptIds
       THEN /\ reply' = Threw("autoGradeAttempt", [attemptId |-> attemptId],
                              "Attempt not found")
            /\ UNCHANGED graders
       ELSE /\ graders' = [graders EXCEPT ![g] =
                    [pc |-> "grade", attemptId |-> attemptId, test |-> testOf(attemptId),
                     rows |-> rowsById(responsesOf(attemptId)),
                     i |-> 1, gradedCount |-> 0, totalScore |-> 0, unevaluated |-> 0]]
            /\ UNCHANGED reply
    /\ UNCHANGED <<attempts, responses, nextResponseId, subs>>

\* One iteration of the loop over the responses that were read.
autoGradeResponse(g) ==
    /\ graders[g].pc = "grade"
    /\ graders[g].i <= Len(graders[g].rows)
    /\ LET c == graders[g]
           pass == gradeIteration([responses |-> responses, gradedCount |-> c.gradedCount,
                                   totalScore |-> c.totalScore], c.test, c.rows[c.i])
       IN  /\ responses' = pass.responses
           /\ graders' = [graders EXCEPT ![g].i = c.i + 1,
                                         ![g].gradedCount = pass.gradedCount,
                                         ![g].totalScore = pass.totalScore]
    /\ UNCHANGED <<attempts, nextResponseId, subs, reply>>

\* findMany of the attempt's responses after the loop.
autoGradeReread(g) ==
    /\ graders[g].pc = "grade"
    /\ graders[g].i > Len(graders[g].rows)
    /\ graders' = [graders EXCEPT
            ![g].pc = "status",
            ![g].unevaluated = unevaluatedCount(responses, graders[g].attemptId)]
    /\ UNCHANGED <<attempts, responses, nextResponseId, subs, reply>>

\* autoGradeFinish counting the unevaluated responses again as it writes.
autoGradeFinishRecounts(g) ==
    /\ graders[g].pc = "status"
    /\ updateGradedAttempt(graders[g].attemptId, graders[g].totalScore,
                           graders[g].gradedCount,
                           unevaluatedCount(responses, graders[g].attemptId))
    /\ graders' = [graders EXCEPT ![g] = IdleGrader]
    /\ UNCHANGED <<responses, nextResponseId, subs>>

\* The update of the attempt.
autoGradeFinish(g) ==
    /\ graders[g].pc = "status"
    /\ updateGradedAttempt(graders[g].attemptId, graders[g].totalScore,
                           graders[g].gradedCount, graders[g].unevaluated)
    /\ graders' = [graders EXCEPT ![g] = IdleGrader]
    /\ UNCHANGED <<responses, nextResponseId, subs>>

\* autoGradeAttempt with no other handler running between its awaits.
autoGradeAttempt(attemptId) ==
    /\ IF attemptId \notin AttemptIds
       THEN /\ reply' = Threw("autoGradeAttempt", [attemptId |-> attemptId],
                              "Attempt not found")
            /\ UNCHANGED <<attempts, responses>>
       ELSE LET pass == gradeLoop([responses |-> responses, gradedCount |-> 0,
                                   totalScore |-> 0],
                                  testOf(attemptId), rowsById(responsesOf(attemptId)), 1)
            IN  /\ responses' = pass.responses
                /\ updateGradedAttempt(attemptId, pass.totalScore, pass.gradedCount,
                                       unevaluatedCount(pass.responses, attemptId))
    /\ UNCHANGED <<nextResponseId, subs, graders>>

----------------------------------------------------------------------------
(* getAttemptScoreReport *)

RECURSIVE sumOfScores(_)
sumOfScores(rs) ==
    IF rs = {} THEN 0
    ELSE LET r == CHOOSE x \in rs : TRUE
         IN  (IF IsNull(r.score) THEN 0 ELSE Val(r.score)) + sumOfScores(rs \ {r})

\* getAttemptScoreReport reporting the totalScore stored on the attempt.
getAttemptScoreReportStored(attemptId) ==
    /\ reply' =
          IF attemptId \notin AttemptIds
          THEN Threw("getAttemptScoreReport", [attemptId |-> attemptId], "Attempt not found")
          ELSE Returned("getAttemptScoreReport", [attemptId |-> attemptId],
                 [attempt |-> formatAttempt(attemptId, attempts[attemptId]),
                  responses |-> {formatResponse(r) : r \in responsesOf(attemptId)},
                  total_score |-> IF IsNull(attempts[attemptId].totalScore) THEN 0
                                  ELSE Val(attempts[attemptId].totalScore)])
    /\ UNCHANGED <<attempts, responses, nextResponseId, subs, graders>>

getAttemptScoreReport(attemptId) ==
    /\ reply' =
          IF attemptId \notin AttemptIds
          THEN Threw("getAttemptScoreReport", [attemptId |-> attemptId], "Attempt not found")
          ELSE Returned("getAttemptScoreReport", [attemptId |-> attemptId],
                 [attempt |-> formatAttempt(attemptId, attempts[attemptId]),
                  responses |-> {formatResponse(r) : r \in responsesOf(attemptId)},
                  total_score |-> sumOfScores(responsesOf(attemptId))])
    /\ UNCHANGED <<attempts, responses, nextResponseId, subs, graders>>

----------------------------------------------------------------------------
(* Requests *)

Data(selectedOptionIds, answerText, score) ==
    [selectedOptionIds |-> selectedOptionIds, answerText |-> answerText, score |-> score]

\* Ids a request may name: those that can exist and one that never does.
RequestTestIds == TestIds \cup {3}
RequestAttemptIds == 1..(MaxAttempts + 1)
RequestResponseIds == 1..nextResponseId
SubmitTimes == {NULL} \cup {Some(t) : t \in Times}
ManualScores == {0, 150}
SubmittedScores == {NULL, Some(0), Some(150)}

\* Bodies of POST /responses for the lifecycle specification.
LifecycleQuestionIds == {1, 6, 9}
LifecycleData(questionId) ==
    IF questionId = 1
    THEN {Data(sel, NULL, score) :
            sel \in {Some(<<1>>), Some(<<2>>)}, score \in SubmittedScores}
    ELSE {Data(NULL, text, NULL) : text \in {NULL, Some(<<>>), Some(<<"a">>)}}

\* Bodies of POST /responses for the grading of one response.
Selections(questionId) ==
    IF questionId = 1
    THEN {NULL, Some(<<>>), Some(<<1>>), Some(<<2>>), Some(<<1, 2>>), Some(<<1, 1>>)}
    ELSE IF questionId = 2
    THEN {Some(<<>>), Some(<<3, 4>>), Some(<<4, 3>>), Some(<<3>>), Some(<<3, 3>>),
          Some(<<3, 5>>), Some(<<3, 4, 5>>), Some(<<3, 4, 4>>)}
    ELSE {NULL}

AnswerTexts(questionId) ==
    IF questionId \in {3, 4, 5}
    THEN {NULL, Some(<<>>), Some(<<"3">>), Some(<<" ", "3", ".", "0", "0">>), Some(<<"4">>),
          Some(<<"p", "i">>), Some(<<"3", "x">>), Some(<<"-", ".", "5">>)}
    ELSE IF questionId = 6
    THEN {NULL, Some(<<"a">>)}
    ELSE {NULL}

GradingData(questionId) ==
    {Data(sel, text, NULL) : sel \in Selections(questionId), text \in AnswerTexts(questionId)}

\* Bodies of POST /responses for the concurrent submissions.
ConcurrentQuestionIds == {1, 6}
ConcurrentData(questionId) ==
    IF questionId = 1
    THEN {Data(Some(<<1>>), NULL, NULL), Data(Some(<<2>>), NULL, NULL)}
    ELSE {Data(NULL, Some(<<"a">>), NULL), Data(NULL, Some(<<"b">>), Some(150))}

\* Bodies of POST /responses for the passes that follow a manual grade.
RegradeQuestionIds == {1, 3}
RegradeData(questionId) ==
    IF questionId = 1
    THEN {Data(Some(<<1>>), NULL, NULL), Data(Some(<<2>>), NULL, NULL)}
    ELSE {Data(NULL, NULL, NULL), Data(NULL, Some(<<"3">>), NULL),
          Data(NULL, Some(<<"p", "i">>), NULL)}

----------------------------------------------------------------------------
(* Specifications *)

\* The engine serving one request at a time.
Next ==
    \/ \E t \in {1, 3}, u \in Users : CanStart /\ startAttempt(t, u)
    \/ \E a \in RequestAttemptIds, st \in SubmitTimes, now \in Times :
            submitAttempt(a, st, now)
    \/ \E a \in RequestAttemptIds, q \in LifecycleQuestionIds :
            \E d \in LifecycleData(q) : submitResponse(a, q, d)
    \/ \E r \in RequestResponseIds, sc \in ManualScores : gradeResponse(r, sc)
    \/ \E a \in RequestAttemptIds : autoGradeAttempt(a)
    \/ \E a \in RequestAttemptIds : getAttemptScoreReport(a)

Spec == Init /\ [][Next]_vars

\* The engine serving one request at a time, over every kind of question and
\* both test policies, with at most MaxResponses responses stored.
NextGrading ==
    \/ \E t \in RequestTestIds, u \in Users : CanStart /\ startAttempt(t, u)
    \/ \E a \in RequestAttemptIds : submitAttempt(a, NULL, 1)
    \/ \E a \in RequestAttemptIds, q \in QuestionIds :
            \E d \in GradingData(q) :
                /\ findResponse(a, q) # {} \/ Cardinality(responses) < MaxResponses
                /\ submitResponse(a, q, d)
    \/ \E r \in RequestResponseIds : gradeResponse(r, 150)
    \/ \E a \in RequestAttemptIds : autoGradeAttempt(a)

SpecGrading == Init /\ [][NextGrading]_vars

\* submitResponse handlers interleaved at their awaits with each other and
\* with the operations that are one step.
NextSubmit ==
    \/ \E u \in Users : CanStart /\ startAttempt(1, u)
    \/ \E a \in RequestAttemptIds : submitAttempt(a, NULL, 1)
    \/ \E s \in Submitters, a \in RequestAttemptIds, q \in ConcurrentQuestionIds :
            \E d \in ConcurrentData(q) : submitResponseBegin(s, a, q, d)
    \/ \E s \in Submitters : submitResponseUpsert(s)
    \/ \E r \in RequestResponseIds : gradeResponse(r, 150)

SpecSubmit == Init /\ [][NextSubmit]_vars

\* autoGradeAttempt handlers interleaved at their awaits with submitResponse
\* and gradeResponse.
NextAutoGrade ==
    \/ \E u \in Users : CanStart /\ startAttempt(1, u)
    \/ \E a \in RequestAttemptIds, q \in ConcurrentQuestionIds :
            \E d \in ConcurrentData(q) : submitResponse(a, q, d)
    \/ \E r \in RequestResponseIds : gradeResponse(r, 150)
    \/ \E g \in Graders, a \in RequestAttemptIds : autoGradeRead(g, a)
    \/ \E g \in Graders : autoGradeResponse(g)
    \/ \E g \in Graders : autoGradeReread(g)
    \/ \E g \in Graders : autoGradeFinish(g)

SpecAutoGrade == Init /\ [][NextAutoGrade]_vars

\* No autoGradeAttempt call is in flight.
NoGraderRunning == \A g \in Graders : graders[g].pc = "idle"

\* The engine serving one request at a time, the autoGradeAttempt pass shown
\* await by await: the rows it read stay visible while it writes.
NextRegrade ==
    \/ \E u \in Users : CanStart /\ NoGraderRunning /\ startAttempt(1, u)
    \/ \E a \in RequestAttemptIds, q \in RegradeQuestionIds :
            \E d \in RegradeData(q) : NoGraderRunning /\ submitResponse(a, q, d)
    \/ \E r \in RequestResponseIds : NoGraderRunning /\ gradeResponse(r, 150)
    \/ \E g \in Graders, a \in RequestAttemptIds : autoGradeRead(g, a)
    \/ \E g \in Graders : autoGradeResponse(g)
    \/ \E g \in Graders : autoGradeReread(g)
    \/ \E g \in Graders : autoGradeFinish(g)

SpecRegrade == Init /\ [][NextRegrade]_vars

\* Bodies of the grading requests (EvaluationRequestSchema).
EvaluationRequests ==
    {[responseId |-> r, score |-> sc] : r \in RequestResponseIds, sc \in ManualScores}

\* Grading requests over HTTP by callers of every role.
NextRoutes ==
    \/ \E u \in Users : CanStart /\ startAttempt(1, u)
    \/ \E a \in RequestAttemptIds, q \in ConcurrentQuestionIds :
            \E d \in ConcurrentData(q) : submitResponse(a, q, d)
    \/ \E userType \in UserTypes, pathId \in RequestResponseIds :
            \E body \in EvaluationRequests : evaluateResponse(userType, pathId, body)
    \/ \E userType \in UserTypes :
            \E body \in EvaluationRequests : manualGradeResponse(userType, body)

SpecRoutes == Init /\ [][NextRoutes]_vars

\* Attempts started one after the other, by the same user or another, on
\* the same test or another, next to attempts already submitted or graded.
NextStart ==
    \/ \E t \in RequestTestIds, u \in StartUsers :
            Len(attempts) < MaxStarts /\ startAttempt(t, u)
    \/ \E a \in 1..(Len(attempts) + 1) : submitAttempt(a, NULL, 1)
    \/ \E a \in 1..(Len(attempts) + 1) : autoGradeAttempt(a)

SpecStart == Init /\ [][NextStart]_vars

----------------------------------------------------------------------------
(* Properties *)

rowOf(rs, attemptId, questionId) ==
    CHOOSE r \in rs : r.attemptId = attemptId /\ r.questionId = questionId

hasRow(rs, attemptId, questionId) ==
    \E r \in rs : r.attemptId = attemptId /\ r.questionId = questionId

\* C1: in every state reached under interleaved submitResponse handlers, two
\* stored Response rows with the same (attemptId, questionId) are the same row.
C1_OneResponsePerKey ==
    \A r1, r2 \in responses :
        (r1.attemptId = r2.attemptId /\ r1.questionId = r2.questionId) => r1 = r2

\* Two handlers raced for one key: the second INSERT was refused by the
\* unique index and the key holds one row.
C1_Witness ==
    /\ reply.op = "submitResponse"
    /\ reply.error = Some("Unique constraint failed")
    /\ Cardinality(findResponse(reply.args.attemptId, reply.args.questionId)) = 1

\* C2: no step takes an attempt from in_progress to graded.
C2_NoGradedFromInProgress ==
    [][\A a \in AttemptIds :
          attempts[a].status = "in_progress" => attempts'[a].status # "graded"]_vars

\* This step answers a request for `op` with a result, not an error.
answered(op) == reply'.op = op /\ IsNull(reply'.error)

\* This step is autoGradeAttempt(a) run alone, returning a result.
autoGraded(a) ==
    /\ answered("autoGradeAttempt")
    /\ a = reply'.args.attemptId
    /\ autoGradeAttempt(a)

\* This step is submitResponse(a, q, d) run alone, returning a row.
submitted(a, q, d) ==
    /\ answered("submitResponse")
    /\ [attemptId |-> a, questionId |-> q, data |-> d] = reply'.args
    /\ submitResponse(a, q, d)

\* C3: an autoGradeAttempt on a graded attempt does not leave it submitted.
C3_AutoGradeKeepsGraded ==
    [][\A a \in AttemptIds :
          (attempts[a].status = "graded" /\ autoGraded(a))
              => attempts'[a].status # "submitted"]_vars

\* C4: once an attempt is graded, every step leaves it graded.
C4_GradedIsTerminal ==
    [][\A a \in AttemptIds :
          attempts[a].status = "graded" => attempts'[a].status = "graded"]_vars

\* C5: an autoGradeAttempt that runs alone writes graded exactly when every
\* response of the attempt is evaluated after its pass, and submitted otherwise.
C5_GradedIffAllEvaluated ==
    [][\A a \in AttemptIds :
          autoGraded(a) =>
              /\ attempts'[a].status = "graded"
                    <=> \A r \in responses' : r.attemptId = a => r.evaluated
              /\ attempts'[a].status # "graded" => attempts'[a].status = "submitted"]_vars

\* autoGradeAttempt has returned an attempt left submitted: it scored one
\* response and another is still unevaluated.
C5_Witness ==
    /\ reply.op = "autoGradeAttempt"
    /\ IsNull(reply.error)
    /\ reply.body.graded_responses_count >= 1
    /\ attempts[reply.args.attemptId].status = "submitted"
    /\ \E r \in responsesOf(reply.args.attemptId) : ~r.evaluated

\* A text that is absent or that parseFloat turns into NaN.
notANumber(x) == IsNull(x) \/ IsNull(parseFloat(Val(x)))

\* C6: autoGradeAttempt leaves as it was (score, evaluated = false) every
\* numerical response whose answerText or whose question's ans is absent or
\* not a number, does not count it, and does not close the attempt.
C6_UnparseableNumericalSkipped ==
    [][\A a \in AttemptIds :
          autoGraded(a) =>
              LET skipped == {r \in responsesOf(a) :
                                /\ questionOf(r.questionId).type = "numerical"
                                /\ \/ notANumber(r.answerText)
                                   \/ notANumber(questionOf(r.questionId).ans)}
              IN  /\ skipped \subseteq responses'
                  /\ reply'.body.graded_responses_count
                        <= Cardinality(responsesOf(a)) - Cardinality(skipped)
                  /\ (\E r \in skipped : ~r.evaluated) => attempts'[a].status = "submitted"]_vars

\* C7: a submitResponse on an existing row stores the supplied score, and
\* leaves the stored score alone when none is supplied.
C7_ScoreKeptWhenNotSupplied ==
    [][answered("submitResponse") => \A a \in AttemptIds, q \in LifecycleQuestionIds :
          \A d \in LifecycleData(q) :
              (hasRow(responses, a, q) /\ submitted(a, q, d)) =>
                  rowOf(responses', a, q).score =
                      IF IsNull(d.score) THEN rowOf(responses, a, q).score ELSE d.score]_vars

\* C8: the first submitResponse for a key creates its row with evaluated =
\* false; a later one keeps the row's id and its evaluated flag and stores
\* the new selectedOptionIds and answerText (no selection being stored as the
\* empty list, no text or the empty text as null).
C8_UpsertOverwrites ==
    [][answered("submitResponse") => \A a \in AttemptIds, q \in LifecycleQuestionIds \cap QuestionIds :
          \A d \in LifecycleData(q) :
              submitted(a, q, d) =>
                  LET new == rowOf(responses', a, q) IN
                  /\ Cardinality({r \in responses' : r.attemptId = a /\ r.questionId = q}) = 1
                  /\ new.selectedOptionIds =
                        (IF IsNull(d.selectedOptionIds) THEN <<>> ELSE Val(d.selectedOptionIds))
                  /\ new.answerText =
                        (IF d.answerText \in {NULL, Some(<<>>)} THEN NULL ELSE d.answerText)
                  /\ IF hasRow(responses, a, q)
                     THEN /\ new.id = rowOf(responses, a, q).id
                          /\ new.evaluated = rowOf(responses, a, q).evaluated
                     ELSE ~new.evaluated]_vars

\* submitResponse has returned an evaluated row, so a row that existed and
\* was graded before the call, now holding the call's payload.
C8_Witness ==
    /\ reply.op = "submitResponse"
    /\ IsNull(reply.error)
    /\ reply.body.evaluated
    /\ reply.body.selectedOptionIds = <<2>>
    /\ reply.args.data.selectedOptionIds = Some(<<2>>)

\* C9: a submitResponse that follows the same successful submitResponse
\* (same attemptId, questionId and payload) leaves the Response table as the
\* first call left it, with one row for the key.
C9_SubmitResponseIdempotent ==
    [][answered("submitResponse") => \A a \in AttemptIds, q \in LifecycleQuestionIds \cap QuestionIds :
          \A d \in LifecycleData(q) :
              (/\ reply.op = "submitResponse"
               /\ IsNull(reply.error)
               /\ reply.args = [attemptId |-> a, questionId |-> q, data |-> d]
               /\ submitted(a, q, d))
              => /\ responses' = responses
                 /\ Cardinality({r \in responses' : r.attemptId = a /\ r.questionId = q}) = 1]_vars

\* The state between the two calls, which is also the state after the second:
\* the last request was a successful submitResponse whose row is stored.
C9_Witness ==
    /\ reply.op = "submitResponse"
    /\ IsNull(reply.error)
    /\ reply.args.data.score = Some(150)
    /\ Cardinality(findResponse(reply.args.attemptId, reply.args.questionId)) = 1
    /\ rowOf(responses, reply.args.attemptId, reply.args.questionId).score = Some(150)

selectedSet(response) ==
    {response.selectedOptionIds[i] : i \in 1..Len(response.selectedOptionIds)}

correctSet(question) ==
    {question.options[i].id : i \in {j \in 1..Len(question.options) :
                                        question.options[j].isCorrect}}

\* C10: under all-or-nothing marking autoGradeAttempt gives a multi-choice
\* response maxScore exactly when the set of selected ids is the set of
\* correct ids, else negativeScore for a non-empty selection and 0 for an
\* empty one, and marks it evaluated.
C10_AllOrNothingBySets ==
    [][\A a \in AttemptIds :
          autoGraded(a) =>
              \A r \in responsesOf(a) :
                  LET question == questionOf(r.questionId)
                      new == rowOf(responses', a, r.questionId)
                  IN  (/\ question.type = "mcmcq"
                       /\ ~(testOf(a).allowPartialMarking /\ question.partialMarking))
                      => /\ new.evaluated
                         /\ new.score = Some(
                              IF selectedSet(r) = correctSet(question) THEN question.maxScore
                              ELSE IF Len(r.selectedOptionIds) > 0 THEN question.negativeScore
                              ELSE 0)]_vars

\* The sum of weight x maxScore over a set of option ids of the question.
RECURSIVE sumOfWeights(_, _)
sumOfWeights(question, ids) ==
    IF ids = {} THEN 0
    ELSE LET id == CHOOSE x \in ids : TRUE
         IN  weightTimesMaxScore(optionWeight(question, id), question.maxScore)
                + sumOfWeights(question, ids \ {id})

\* C11: when the test allows partial marking and the question has it on,
\* autoGradeAttempt gives a multi-choice response the sum of weight x maxScore
\* over the selected correct options, each counted once, and marks it
\* evaluated; wrong selections add nothing and negativeScore is not applied.
C11_PartialBySets ==
    [][\A a \in AttemptIds :
          autoGraded(a) =>
              \A r \in responsesOf(a) :
                  LET question == questionOf(r.questionId)
                      new == rowOf(responses', a, r.questionId)
                  IN  (/\ question.type = "mcmcq"
                       /\ testOf(a).allowPartialMarking /\ question.partialMarking)
                      => /\ new.evaluated
                         /\ new.score = Some(sumOfWeights(question,
                                selectedSet(r) \cap correctSet(question)))]_vars

\* C12: autoGradeAttempt gives a single-choice response maxScore when exactly
\* one option is selected and it is the correct one, negativeScore for any
\* other non-empty selection, 0 for an empty selection, and marks it evaluated.
C12_SingleChoiceScore ==
    [][\A a \in AttemptIds :
          autoGraded(a) =>
              \A r \in responsesOf(a) :
                  LET question == questionOf(r.questionId)
                      new == rowOf(responses', a, r.questionId)
                  IN  (/\ question.type = "scmcq"
                       /\ Cardinality(correctSet(question)) = 1)
                      => /\ new.evaluated
                         /\ new.score = Some(
                              IF /\ Len(r.selectedOptionIds) = 1
                                 /\ selectedSet(r) = correctSet(question)
                              THEN question.maxScore
                              ELSE IF r.selectedOptionIds # <<>> THEN question.negativeScore
                              ELSE 0)]_vars

\* autoGradeAttempt has penalised a single-choice response that names the
\* correct option twice.
C12_Witness ==
    /\ reply.op = "autoGradeAttempt"
    /\ IsNull(reply.error)
    /\ \E r \in responsesOf(reply.args.attemptId) :
          /\ r.questionId = 1
          /\ r.selectedOptionIds = <<1, 1>>
          /\ r.evaluated
          /\ r.score = Some(50)

\* C13: autoGradeAttempt gives a numerical response whose answerText and
\* whose question's ans are both present and both parse as numbers maxScore
\* exactly when the two numbers are equal, negativeScore otherwise, and marks
\* it evaluated.
C13_NumericalByValue ==
    [][\A a \in AttemptIds :
          autoGraded(a) =>
              \A r \in responsesOf(a) :
                  LET question == questionOf(r.questionId)
                      new == rowOf(responses', a, r.questionId)
                  IN  (/\ question.type = "numerical"
                       /\ ~notANumber(r.answerText)
                       /\ ~notANumber(question.ans))
                      => /\ new.evaluated
                         /\ new.score = Some(
                              IF Val(parseFloat(Val(r.answerText)))
                                    = Val(parseFloat(Val(question.ans)))
                              THEN question.maxScore
                              ELSE question.negativeScore)]_vars

\* autoGradeAttempt has given maxScore to the answer " 3.00" to the question
\* whose ans is "3.0": equal numbers, different texts.
C13_Witness ==
    /\ reply.op = "autoGradeAttempt"
    /\ IsNull(reply.error)
    /\ \E r \in responsesOf(reply.args.attemptId) :
          /\ r.questionId = 3
          /\ r.answerText = Some(<<" ", "3", ".", "0", "0">>)
          /\ r.evaluated
          /\ r.score = Some(100)

\* A question type autoGradeAttempt has no rule for.
manualType(question) == question.type \notin {"scmcq", "mcmcq", "numerical"}

\* C14: autoGradeAttempt leaves every response to a free-text or file-upload
\* question (any type but single-choice, multi-choice, numerical) as it was,
\* and the count it returns and the totalScore it stores are the number and
\* the sum of scores of some of the other responses.
C14_ManualTypesUntouched ==
    [][\A a \in AttemptIds :
          autoGraded(a) =>
              LET manual == {r \in responsesOf(a) : manualType(questionOf(r.questionId))}
                  others == {r \in responses' : r.attemptId = a} \ manual
              IN  /\ manual \subseteq responses'
                  /\ \E scored \in SUBSET others :
                        /\ reply'.body.graded_responses_count = Cardinality(scored)
                        /\ attempts'[a].totalScore = Some(sumOfScores(scored))]_vars

\* autoGradeAttempt has returned from an attempt whose only response is a
\* manually graded file upload: nothing counted, the manual score kept.
C14_Witness ==
    /\ reply.op = "autoGradeAttempt"
    /\ IsNull(reply.error)
    /\ reply.body.graded_responses_count = 0
    /\ attempts[reply.args.attemptId].totalScore = Some(0)
    /\ \E r \in responsesOf(reply.args.attemptId) :
          /\ questionOf(r.questionId).type = "file_upload"
          /\ r.evaluated
          /\ r.score = Some(150)

\* The pass writes a score for this response: a choice question, or a
\* numerical one with a non-empty answerText and ans.
scoredByPass(r) ==
    LET question == questionOf(r.questionId)
    IN  \/ question.type \in {"scmcq", "mcmcq"}
        \/ /\ question.type = "numerical"
           /\ r.answerText \notin {NULL, Some(<<>>)}
           /\ question.ans \notin {NULL, Some(<<>>)}

\* C15: autoGradeAttempt stores as attempt.totalScore the sum of the scores
\* it assigned in the pass and returns the number of responses it scored;
\* the scores of the responses it did not score are left out of the sum.
C15_TotalScoreOfThePass ==
    [][\A a \in AttemptIds :
          autoGraded(a) =>
              LET scoredIds == {r.id : r \in {x \in responsesOf(a) : scoredByPass(x)}}
                  scored == {r \in responses' : r.id \in scoredIds}
              IN  /\ attempts'[a].totalScore = Some(sumOfScores(scored))
                  /\ reply'.body.graded_responses_count = Cardinality(scoredIds)]_vars

\* autoGradeAttempt has scored the single-choice response and left out the
\* manually graded text response: totalScore is 2.00, the responses sum to 3.50.
C15_Witness ==
    /\ reply.op = "autoGradeAttempt"
    /\ IsNull(reply.error)
    /\ reply.body.graded_responses_count = 1
    /\ attempts[reply.args.attemptId].totalScore = Some(200)
    /\ \E r \in responsesOf(reply.args.attemptId) :
          r.questionId = 6 /\ r.evaluated /\ r.score = Some(150)

\* The rows the pass read that were graded by hand: evaluated, with the score
\* only gradeResponse gives.
manuallyGraded(snapshot) == snapshot.evaluated /\ snapshot.score = Some(150)

\* The pass of handler g has written all its scores and re-read the table.
passWritten(g) == graders[g].pc = "status"

\* C16: when autoGradeAttempt runs on an attempt after gradeResponse set a
\* manual score on one of its responses, and the pass scores that response
\* (a single-choice or multi-choice question, or a numerical one with a
\* non-empty answerText and ans), the response then holds the score of the
\* grading algorithm, evaluated or not before the pass.
C16_AutoGradeOverwritesManual ==
    \A g \in Graders :
        passWritten(g) =>
            \A k \in 1..Len(graders[g].rows) :
                LET snapshot == graders[g].rows[k] IN
                (manuallyGraded(snapshot) /\ scoredByPass(snapshot))
                    => \E r \in responses :
                          /\ r.id = snapshot.id
                          /\ r.evaluated
                          /\ r.score = Some(gradeOne(graders[g].test,
                                                     questionOf(snapshot.questionId),
                                                     snapshot).score)

\* The pass read a single-choice response holding the manual score 1.50 and
\* has replaced it with maxScore.
C16_Witness ==
    \E g \in Graders :
        /\ passWritten(g)
        /\ \E k \in 1..Len(graders[g].rows) :
              /\ manuallyGraded(graders[g].rows[k])
              /\ graders[g].rows[k].questionId = 1
              /\ \E r \in responses : r.id = graders[g].rows[k].id /\ r.score = Some(200)

\* C16 as first stated: after a manual grade on a response to a single-choice,
\* multi-choice or numerical question, an autoGradeAttempt pass leaves a score
\* that is not the manual one.
C16_ManualNeverSurvives ==
    \A g \in Graders :
        passWritten(g) =>
            \A k \in 1..Len(graders[g].rows) :
                LET snapshot == graders[g].rows[k] IN
                (/\ manuallyGraded(snapshot)
                 /\ questionOf(snapshot.questionId).type \in {"scmcq", "mcmcq", "numerical"})
                    => \E r \in responses : r.id = snapshot.id /\ r.score # snapshot.score

\* C17: gradeResponse on a stored response sets its score to the given score
\* and evaluated to true and changes nothing else: not the response's other
\* fields, not another response, not any attempt's status, totalScore or
\* submittedAt.  On an id no response has, it fails with "Response not found"
\* and changes nothing.
C17_GradeResponseFrame ==
    [][reply'.op = "gradeResponse" =>
          LET id == reply'.args.responseId
              old == {r \in responses : r.id = id}
          IN  /\ attempts' = attempts
              /\ {r \in responses' : r.id # id} = {r \in responses : r.id # id}
              /\ IF old = {}
                 THEN /\ reply'.error = Some("Response not found")
                      /\ responses' = responses
                 ELSE /\ IsNull(reply'.error)
                      /\ \A r \in old :
                            \E new \in responses' :
                                /\ new.id = id
                                /\ new.score = Some(reply'.args.score)
                                /\ new.evaluated
                                /\ new.attemptId = r.attemptId
                                /\ new.questionId = r.questionId
                                /\ new.selectedOptionIds = r.selectedOptionIds
                                /\ new.answerText = r.answerText
                      /\ Cardinality(responses') = Cardinality(responses)]_vars

\* gradeResponse has stored the score 0 on the last unevaluated response of a
\* submitted attempt: the attempt is still submitted.
C17_Witness ==
    /\ reply.op = "gradeResponse"
    /\ IsNull(reply.error)
    /\ reply.args.score = 0
    /\ \E r \in responses :
          /\ r.id = reply.args.responseId
          /\ r.score = Some(0)
          /\ r.evaluated
          /\ attempts[r.attemptId].status = "submitted"
          /\ \A o \in responsesOf(r.attemptId) : o.evaluated

\* This step is one iteration of the loop of handler g.
loopStep(g) ==
    /\ graders[g].pc = "grade"
    /\ graders'[g].pc = "grade"
    /\ graders'[g].i = graders[g].i + 1

\* This step is the status write of handler g.
statusStep(g) == graders[g].pc = "status" /\ graders'[g].pc = "idle"

\* C18: autoGradeAttempt is not isolated.  Each write of the pass is decided
\* by what the pass read earlier and not by the table at the time of the
\* write: the score written for a response is computed from the row as first
\* read and replaces whatever gradeResponse stored since, and the status
\* written is the one the re-read decided, whatever the evaluated flags are
\* by then.
C18_WritesFromStaleReads ==
    [][\A g \in Graders :
          /\ loopStep(g) =>
                LET snapshot == graders[g].rows[graders[g].i] IN
                scoredByPass(snapshot) =>
                    \E r \in responses' :
                        /\ r.id = snapshot.id
                        /\ r.evaluated
                        /\ r.score = Some(gradeOne(graders[g].test,
                                                   questionOf(snapshot.questionId),
                                                   snapshot).score)
          /\ statusStep(g) =>
                attempts'[graders[g].attemptId].status =
                    (IF graders[g].unevaluated = 0 THEN "graded" ELSE "submitted")]_vars

\* The first interleaving: the pass read a response before gradeResponse
\* graded it (the row it read is unevaluated), gradeResponse returned, and
\* the response now holds the score of the pass, not the manual 1.50.
C18_Witness ==
    /\ reply.op = "gradeResponse"
    /\ IsNull(reply.error)
    /\ \E g \in Graders :
          /\ graders[g].pc \in {"grade", "status"}
          /\ \E k \in 1..Len(graders[g].rows) :
                /\ graders[g].rows[k].id = reply.args.responseId
                /\ ~graders[g].rows[k].evaluated
                /\ k < graders[g].i
    /\ \E r \in responses :
          /\ r.id = reply.args.responseId
          /\ r.evaluated
          /\ r.score # Some(reply.args.score)

\* The second interleaving: autoGradeAttempt has returned and the status it
\* wrote does not match the stored responses (graded with an unevaluated
\* response, or submitted with none).
C18_StatusMismatch ==
    /\ reply.op = "autoGradeAttempt"
    /\ IsNull(reply.error)
    /\ attempts[reply.args.attemptId].status = "graded"
          <=> \E r \in responsesOf(reply.args.attemptId) : ~r.evaluated

\* The score stored for a question of an attempt, 0 when there is no response
\* or its score is null.
scoreFor(attemptId, questionId) ==
    IF hasRow(responses, attemptId, questionId)
          /\ ~IsNull(rowOf(responses, attemptId, questionId).score)
    THEN Val(rowOf(responses, attemptId, questionId).score)
    ELSE 0

\* C19: getAttemptScoreReport returns as total_score the sum of the non-null
\* scores of the attempt's responses as stored when it is called, whatever
\* attempt.totalScore holds, and changes no attempt and no response.
C19_ReportSumsStoredScores ==
    [][(reply'.op = "getAttemptScoreReport" /\ IsNull(reply'.error)) =>
          /\ reply'.body.total_score =
                scoreFor(reply'.args.attemptId, 1) + scoreFor(reply'.args.attemptId, 6)
          /\ \A r \in responsesOf(reply'.args.attemptId) : r.questionId \in {1, 6}
          /\ attempts' = attempts
          /\ responses' = responses
          /\ nextResponseId' = nextResponseId]_vars

\* getAttemptScoreReport has returned a total that is not the totalScore
\* stored on the attempt: a response was graded by hand after the last pass.
C19_Witness ==
    /\ reply.op = "getAttemptScoreReport"
    /\ IsNull(reply.error)
    /\ ~IsNull(attempts[reply.args.attemptId].totalScore)
    /\ reply.body.total_score # Val(attempts[reply.args.attemptId].totalScore)
    /\ reply.body.total_score > 0

\* C20: when gradeResponse has just evaluated the last unevaluated response
\* of an attempt that a pass had left submitted, an autoGradeAttempt run next
\* sets the attempt's status to graded.
C20_RegradeClosesAttempt ==
    [][\A a \in AttemptIds :
          (/\ reply.op = "gradeResponse"
           /\ IsNull(reply.error)
           /\ attempts[a].status = "submitted"
           /\ ~IsNull(attempts[a].totalScore)
           /\ \A r \in responsesOf(a) : r.evaluated
           /\ autoGraded(a))
          => attempts'[a].status = "graded"]_vars

\* autoGradeAttempt has closed an attempt whose text response was graded by
\* hand: it scored one response of two and the attempt is graded.
C20_Witness ==
    /\ reply.op = "autoGradeAttempt"
    /\ IsNull(reply.error)
    /\ attempts[reply.args.attemptId].status = "graded"
    /\ Cardinality(responsesOf(reply.args.attemptId)) = 2
    /\ reply.body.graded_responses_count = 1
    /\ \E r \in responsesOf(reply.args.attemptId) :
          r.questionId = 6 /\ r.evaluated /\ r.score = Some(0)

\* C21: submitAttempt on a stored attempt sets its status to submitted and
\* its submittedAt to the supplied submitTime, or to the current time when
\* none is supplied; it changes no response, no totalScore and no other
\* attempt; and repeated with the same supplied submitTime it leaves the
\* state the first call left.
C21_SubmitAttemptFrame ==
    [][(reply'.op = "submitAttempt" /\ IsNull(reply'.error)) =>
          LET a == reply'.args.attemptId
              submitTime == reply'.args.submitTime
          IN  /\ a \in AttemptIds
              /\ attempts'[a].status = "submitted"
              /\ IF IsNull(submitTime)
                 THEN attempts'[a].submittedAt \in {Some(t) : t \in Times}
                 ELSE attempts'[a].submittedAt = submitTime
              /\ attempts'[a].totalScore = attempts[a].totalScore
              /\ attempts'[a].testId = attempts[a].testId
              /\ attempts'[a].userId = attempts[a].userId
              /\ Len(attempts') = Len(attempts)
              /\ \A o \in AttemptIds \ {a} : attempts'[o] = attempts[o]
              /\ responses' = responses
              /\ nextResponseId' = nextResponseId
              /\ (/\ reply.op = "submitAttempt"
                  /\ IsNull(reply.error)
                  /\ reply.args = reply'.args
                  /\ ~IsNull(submitTime)) => attempts' = attempts]_vars

\* submitAttempt has stamped the supplied time on an attempt that holds an
\* unevaluated response and a totalScore from an earlier pass: nothing graded.
C21_Witness ==
    /\ reply.op = "submitAttempt"
    /\ IsNull(reply.error)
    /\ reply.args.submitTime = Some(2)
    /\ attempts[reply.args.attemptId].status = "submitted"
    /\ attempts[reply.args.attemptId].submittedAt = Some(2)
    /\ attempts[reply.args.attemptId].totalScore = Some(200)
    /\ \E r \in responsesOf(reply.args.attemptId) : ~r.evaluated

\* C22: startAttempt on a stored test appends one attempt with status
\* in_progress, submittedAt null and totalScore null and changes no other
\* attempt, whatever attempts the user already holds on the test; on a test
\* that is not stored it fails with "Test not found" and creates nothing.
C22_StartAttemptAlwaysCreates ==
    [][reply'.op = "startAttempt" =>
          LET testId == reply'.args.testId
              userId == reply'.args.userId
          IN  IF testId \in TestIds
              THEN /\ IsNull(reply'.error)
                   /\ Len(attempts') = Len(attempts) + 1
                   /\ \A a \in AttemptIds : attempts'[a] = attempts[a]
                   /\ attempts'[Len(attempts')] =
                         [testId |-> testId, userId |-> userId, status |-> "in_progress",
                          submittedAt |-> NULL, totalScore |-> NULL]
                   /\ reply'.body.id = Len(attempts')
                   /\ responses' = responses
              ELSE /\ reply'.error = Some("Test not found")
                   /\ attempts' = attempts
                   /\ responses' = responses]_vars

\* startAttempt has returned a second attempt to a user whose first attempt
\* on the same test is graded.
C22_Witness ==
    /\ reply.op = "startAttempt"
    /\ IsNull(reply.error)
    /\ Len(attempts) = 2
    /\ reply.body.id = 2
    /\ attempts[1].testId = attempts[2].testId
    /\ attempts[1].userId = attempts[2].userId
    /\ attempts[1].status = "graded"
    /\ attempts[2].status = "in_progress"

\* C23: submitResponse for an attempt or a question that is not stored fails
\* with NotFound naming Attempt when the attempt is missing and Question when
\* only the question is, and creates or changes no Response row; when both
\* are stored it does not fail with NotFound.
C23_NotFoundNamesMissing ==
    [][reply'.op = "submitResponse" =>
          LET noAttempt == reply'.args.attemptId \notin AttemptIds
              noQuestion == reply'.args.questionId \notin QuestionIds
          IN  IF noAttempt \/ noQuestion
              THEN /\ ~IsNull(reply'.error)
                   /\ submitResponseNotFound(Val(reply'.error))
                         = Some(IF noAttempt THEN "Attempt" ELSE "Question")
                   /\ responses' = responses
                   /\ nextResponseId' = nextResponseId
                   /\ attempts' = attempts
              ELSE \/ IsNull(reply'.error)
                   \/ IsNull(submitResponseNotFound(Val(reply'.error)))]_vars

\* submitResponse has failed for a question that is not stored, on an attempt
\* that is and that already holds a response.
C23_Witness ==
    /\ reply.op = "submitResponse"
    /\ reply.error = Some("Question not found")
    /\ submitResponseNotFound(Val(reply.error)) = Some("Question")
    /\ reply.args.attemptId \in AttemptIds
    /\ responsesOf(reply.args.attemptId) # {}

\* C24: a request by a participant on a route that applies a manual grade
\* (PATCH /responses/:responseId, POST /grading/manual) is refused before
\* gradeResponse and changes no response.
C24_ParticipantsNeverGrade ==
    [][(/\ reply'.op \in {PatchResponse, PostGradingManual}
        /\ reply'.args.userType = "participant")
          => /\ reply'.error = Some(Forbidden)
             /\ responses' = responses]_vars

\* C25: PATCH /responses/{id} by a tester or an admin grades the response
\* whose id is in the path: that response gets the given score and evaluated
\* = true and no other response changes; when no response has the path id
\* the call answers 404 and changes nothing.
C25_PatchGradesPathId ==
    [][(/\ reply'.op = PatchResponse
        /\ reply'.args.userType \in {"tester", "admin"})
          => LET id == reply'.args.pathId IN
             IF \E r \in responses : r.id = id
             THEN /\ IsNull(reply'.error)
                  /\ \E r \in responses' :
                        /\ r.id = id
                        /\ r.score = Some(reply'.args.body.score)
                        /\ r.evaluated
                  /\ {r \in responses' : r.id # id} = {r \in responses : r.id # id}
             ELSE /\ reply'.error = Some(NotFound)
                  /\ responses' = responses]_vars

\* C26: in every state, a response with evaluated = true has a score.
C26_EvaluatedHasScore ==
    \A r \in responses : r.evaluated => ~IsNull(r.score)

\* C27: in every state between two requests, an attempt whose status is
\* graded has no response with evaluated = false.
C27_GradedHasNoUnevaluated ==
    \A a \in AttemptIds :
        attempts[a].status = "graded" => \A r \in responsesOf(a) : r.evaluated

\* C28: in every state, an attempt whose status is submitted or graded has a
\* submittedAt.
C28_SubmittedHasTimestamp ==
    \A a \in AttemptIds :
        attempts[a].status \in {"submitted", "graded"} => ~IsNull(attempts[a].submittedAt)

\* C29: when an autoGradeAttempt call returns, every response it scored holds
\* the score the grading algorithm gives to the answer stored at that moment,
\* submitResponse calls having run meanwhile or not (a response graded by
\* hand meanwhile, which holds the manual score, set aside).
C29_ScoreMatchesStoredAnswer ==
    [][\A g \in Graders :
          statusStep(g) =>
              \A k \in 1..Len(graders[g].rows) :
                  scoredByPass(graders[g].rows[k]) =>
                      \E r \in responses' :
                          /\ r.id = graders[g].rows[k].id
                          /\ \/ manuallyGraded(r)
                             \/ r.score = Some(gradeOne(graders[g].test,
                                                        questionOf(r.questionId), r).score)]_vars

\* C30: under partial marking, when the weights of the question's correct
\* options sum to at most 1, the score autoGradeAttempt gives a multi-choice
\* response is at most maxScore, whatever list of option ids was submitted.
C30_PartialScoreAtMostMax ==
    [][\A a \in AttemptIds :
          autoGraded(a) =>
              \A r \in responsesOf(a) :
                  LET question == questionOf(r.questionId)
                      new == rowOf(responses', a, r.questionId)
                  IN  (/\ question.type = "mcmcq"
                       /\ testOf(a).allowPartialMarking /\ question.partialMarking
                       /\ sumOfWeights(question, correctSet(question)) <= question.maxScore)
                      => Val(new.score) <= question.maxScore]_vars

====
